---- MODULE Spec2Model ----
(***************************************************************************)
(* Model of the cortex CLI operator client (cli/cmd/lib_client.go) and of  *)
(* the operator's Delete endpoint (pkg/operator/endpoints/delete.go).      *)
(*                                                                         *)
(* Text is a sequence of tokens (strings); a URL, a JSON body, a log frame *)
(* and an error message are all token sequences, so that formatting,       *)
(* escaping, decoding and pattern matching are computed, not assumed.      *)
(***************************************************************************)
EXTENDS Integers, Sequences, FiniteSets, TLC

VARIABLES
    cfg,      \* the CLI configuration returned by getValidCliConfig
    call,     \* the client function invoked and its arguments
    pc,       \* position of the calling (main) goroutine
    result,   \* ([]byte, error) returned by an HTTP helper
    wire,     \* requests handed to the transport (HTTP and websocket dial)
    srv,      \* what the operator / network answers to the request
    exit,     \* process termination: who ended the process, with what message
    sig,      \* the interrupt subscription of StreamLogs and the signals delivered
    conn,     \* the websocket session: connection, handshake response, done, reader
    sent,     \* the frames the operator has written to the websocket
    nread,    \* how many of them ReadMessage has returned
    stdout,   \* the lines printed
    handles,  \* the files HTTPUpload has opened, and those it has closed
    operator  \* operator side: the deployed apps, and the requests Delete has handled

streamVars == <<sig, conn, sent, nread, stdout>>
vars == <<cfg, call, pc, result, wire, srv, exit, sig, conn, sent, nread, stdout, handles, operator>>

(***************************************************************************)
(* Bounds of the model.                                                    *)
(***************************************************************************)
MaxBodyLen == 4   \* tokens in a response body
MaxMaps == 2      \* query-parameter maps passed to one call
MaxFrames == 2    \* frames the operator writes in one session
MaxSignals == 2   \* interrupts delivered to the process
MaxRequests == 2  \* requests the Delete endpoint handles

BoundedSeq(S, n) == UNION {[1..k -> S] : k \in 0..n}

(***************************************************************************)
(* Errors.  pkg/utils/errors is not part of the sources at hand: New makes *)
(* an error out of a message, Wrap puts a message in front of a cause.     *)
(* An error is its message plus the kind of the cause it was wrapped       *)
(* around ("" when there is none); NilErr is Go's nil error.               *)
(***************************************************************************)
NilErr == [nil |-> TRUE, msg |-> <<>>, cause |-> ""]
New(msg) == [nil |-> FALSE, msg |-> msg, cause |-> ""]
Wrap(err, msg) == [nil |-> FALSE, msg |-> msg, cause |-> err.cause]

\* errors produced below the client: by net/http, io and net/url
TransportError == [nil |-> FALSE, msg |-> <<"dial tcp: connection refused">>, cause |-> "transport"]
ReadError == [nil |-> FALSE, msg |-> <<"unexpected EOF">>, cause |-> "read"]
ParseError == [nil |-> FALSE, msg |-> <<"invalid URL escape">>, cause |-> "url"]

NilBytes == [nil |-> TRUE, data |-> <<>>]
Bytes(data) == [nil |-> FALSE, data |-> data]

\* pkg/api/strings messages
ErrCantMakeRequest == <<"unable to make request">>
ErrRead == <<"unable to read response">>
ErrFailedToConnect(urlStr) == <<"failed to connect to operator: ">> \o urlStr

(***************************************************************************)
(* URLs.  A URL string is scheme, "://", optional userinfo, host, path,    *)
(* and "?" query when the query is not empty.                              *)
(***************************************************************************)
CredentialTokens == {"user:pw@"}
BaseURLs == { <<"http", "://", "operator">>,
              <<"https", "://", "user:pw@", "operator">>,
              <<"http", "://", "%zz">> }

\* net/url refuses a host with a malformed percent escape
URLParses(urlStr) == \A i \in 1..Len(urlStr) : urlStr[i] # "%zz"

URLString(url) ==
    IF url.RawQuery = <<>> THEN url.prefix ELSE url.prefix \o <<"?">> \o url.RawQuery

\* the query of a URL string: what follows the "?"
RawQueryOf(urlStr) ==
    LET at == {i \in 1..Len(urlStr) : urlStr[i] = "?"} IN
    IF at = {} THEN <<>>
    ELSE SubSeq(urlStr, (CHOOSE i \in at : \A j \in at : i <= j) + 1, Len(urlStr))

IsCredential(tok) == tok \in CredentialTokens
IsNotCredential(tok) == ~IsCredential(tok)
\* util.CleanURL: the URL without its userinfo
CleanURL(urlStr) == SelectSeq(urlStr, IsNotCredential)

(***************************************************************************)
(* Query strings (net/url Values, QueryEscape, Encode, ParseQuery).        *)
(* A key or value is a sequence of characters.                             *)
(***************************************************************************)
CharRank(c) ==
    CASE c = " " -> 1
      [] c = "&" -> 2
      [] c = "=" -> 3
      [] c = "a" -> 4
      [] c = "app" -> 5
      [] c = "appName" -> 6
      [] c = "b" -> 7
      [] c = "false" -> 8
      [] c = "resourceName" -> 9
      [] c = "resourceType" -> 10
      [] c = "true" -> 11
      [] c = "verbose" -> 12
      [] OTHER -> 13

RECURSIVE StrLess(_, _)
StrLess(s, t) ==
    IF t = <<>> THEN FALSE
    ELSE IF s = <<>> THEN TRUE
    ELSE IF CharRank(Head(s)) # CharRank(Head(t)) THEN CharRank(Head(s)) < CharRank(Head(t))
    ELSE StrLess(Tail(s), Tail(t))

EscChar(c) ==
    CASE c = "&" -> "%26"
      [] c = "=" -> "%3D"
      [] c = " " -> "+"
      [] OTHER -> c
UnescChar(c) ==
    CASE c = "%26" -> "&"
      [] c = "%3D" -> "="
      [] c = "+" -> " "
      [] OTHER -> c
QueryEscape(s) == [i \in 1..Len(s) |-> EscChar(s[i])]
QueryUnescape(s) == [i \in 1..Len(s) |-> UnescChar(s[i])]

EmptyValues == [k \in {} |-> <<>>]
\* Values.Set for every entry of one map
SetAll(values, paramMap) ==
    [k \in DOMAIN values \cup DOMAIN paramMap |->
        IF k \in DOMAIN paramMap THEN paramMap[k] ELSE values[k]]

RECURSIVE SortedKeys(_)
\* the keys in increasing order
SortedKeys(D) ==
    IF D = {} THEN <<>>
    ELSE LET least == CHOOSE k \in D : \A other \in D \ {k} : StrLess(k, other)
         IN <<least>> \o SortedKeys(D \ {least})

RECURSIVE EncodeFrom(_, _, _)
EncodeFrom(values, keys, i) ==
    IF i > Len(keys) THEN <<>>
    ELSE (IF i > 1 THEN <<"&">> ELSE <<>>)
         \o QueryEscape(keys[i]) \o <<"=">> \o QueryEscape(values[keys[i]])
         \o EncodeFrom(values, keys, i + 1)
\* Values.Encode: "k=v" pairs sorted by key, joined by "&"
Encode(values) == EncodeFrom(values, SortedKeys(DOMAIN values), 1)

RECURSIVE IndexOf(_, _, _)
IndexOf(s, c, i) ==
    IF i > Len(s) THEN 0 ELSE IF s[i] = c THEN i ELSE IndexOf(s, c, i + 1)

RECURSIVE Split(_, _)
Split(s, sep) ==
    LET i == IndexOf(s, sep, 1) IN
    IF i = 0 THEN <<s>>
    ELSE <<SubSeq(s, 1, i - 1)>> \o Split(SubSeq(s, i + 1, Len(s)), sep)

PairOf(seg) ==
    LET i == IndexOf(seg, "=", 1) IN
    IF i = 0 THEN <<QueryUnescape(seg), <<>>>>
    ELSE <<QueryUnescape(SubSeq(seg, 1, i - 1)), QueryUnescape(SubSeq(seg, i + 1, Len(seg)))>>

NonEmptySeg(seg) == seg # <<>>
\* url.ParseQuery: key -> the values given for it, in order
ParseQuery(raw) ==
    LET segs == SelectSeq(Split(raw, "&"), NonEmptySeg)
        pairs == [i \in 1..Len(segs) |-> PairOf(segs[i])]
        keys == {pairs[i][1] : i \in 1..Len(pairs)}
        ValuesOf(k) ==
            LET Has(p) == p[1] = k
                ps == SelectSeq(pairs, Has)
            IN [i \in 1..Len(ps) |-> ps[i][2]]
    IN [k \in keys |-> ValuesOf(k)]

(***************************************************************************)
(* JSON error envelope (schema.ErrorResponse{Error string `json:"error"`}) *)
(* decoded by encoding/json.  Body tokens:                                 *)
(***************************************************************************)
JsonKeys == {"\"error\":", "\"other\":"}
JsonStrings == {"\"X\"", "\"\""}
BodyTokens == {"{", "}", ","} \cup JsonKeys \cup JsonStrings \cup {"text"}
Bodies == BoundedSeq(BodyTokens, MaxBodyLen)

\* the Go string a JSON string literal decodes to
StringValue(tok) == IF tok = "\"X\"" THEN "X" ELSE ""

\* members of a JSON object: key value { "," key value }
IsMembers(inner) ==
    \/ inner = <<>>
    \/ /\ Len(inner) % 3 = 2
       /\ \A i \in 1..Len(inner) :
            CASE i % 3 = 1 -> inner[i] \in JsonKeys
              [] i % 3 = 2 -> inner[i] \in JsonStrings
              [] OTHER -> inner[i] = ","
IsObject(body) ==
    /\ Len(body) >= 2
    /\ body[1] = "{"
    /\ body[Len(body)] = "}"
    /\ IsMembers(SubSeq(body, 2, Len(body) - 1))

\* json.Unmarshal(bodyBytes, &output): err is set unless the body is a JSON
\* object; Error is the value of the last "error" member, "" without one
Unmarshal(body) ==
    IF ~IsObject(body) THEN [err |-> TRUE, Error |-> ""]
    ELSE LET inner == SubSeq(body, 2, Len(body) - 1)
             at == {i \in 1..Len(inner) : inner[i] = "\"error\":"}
         IN [err |-> FALSE,
             Error |-> IF at = {} THEN ""
                       ELSE StringValue(inner[(CHOOSE i \in at : \A j \in at : j <= i) + 1])]

(***************************************************************************)
(* Headers.                                                                *)
(***************************************************************************)
CortexVersion == <<"0.8.0">>
HeaderSet(header, name, value) ==
    {h \in header : h[1] # name} \cup {<<name, value>>}

\* authHeader (fmt.Sprintf("CortexAWS %s|%s", id, secret))
authHeader ==
    <<"CortexAWS ", cfg.AWSAccessKeyID, "|", cfg.AWSSecretAccessKey>>

(***************************************************************************)
(* Request Builder and Response Unifier.                                   *)
(***************************************************************************)
NilBody == [nil |-> TRUE, data |-> <<>>]
NoRequest == [method |-> "", url |-> [prefix |-> <<>>, RawQuery |-> <<>>],
              header |-> {}, body |-> NilBody]

RECURSIVE MergeParams_EarlierWins(_, _)
MergeParams_EarlierWins(values, qParams) ==
    IF qParams = <<>> THEN values
    ELSE MergeParams_EarlierWins(SetAll(Head(qParams), values), Tail(qParams))

RECURSIVE MergeParams(_, _)
\* the loop over qParams: every map's entries are Set, in argument order
MergeParams(values, qParams) ==
    IF qParams = <<>> THEN values
    ELSE MergeParams(SetAll(values, Head(qParams)), Tail(qParams))

operatorRequest(method, endpoint, body, qParams) ==
    LET target == cfg.CortexURL \o <<endpoint>> IN
    IF ~URLParses(target)
    THEN [req |-> NoRequest, err |-> Wrap(ParseError, ErrCantMakeRequest)]
    ELSE [req |-> [method |-> method,
                   url |-> [prefix |-> target,
                            RawQuery |-> Encode(MergeParams(EmptyValues, qParams))],
                   header |-> {},
                   body |-> body],
          err |-> NilErr]

StatusOK == 200

\* the headers makeRequest sets before the request is sent
WithAuth(request) ==
    [request EXCEPT !.header =
        HeaderSet(HeaderSet(@, "Authorization", authHeader),
                  "CortexAPIVersion", CortexVersion)]

ConnectError_KeepsCredentials(request, err) ==
    Wrap(err, ErrFailedToConnect(URLString(request.url)))

\* the error a failed httpClient.Do is turned into
ConnectError(request, err) ==
    Wrap(err, ErrFailedToConnect(CleanURL(URLString(request.url))))

StatusError_EmptyErrorSurfaced(response) ==
    IF response.readFails THEN New(ErrRead)
    ELSE LET output == Unmarshal(response.body) IN
         IF output.err THEN New(response.body) ELSE New(<<output.Error>>)

\* the error a non-200 response is turned into
StatusError(response) ==
    IF response.readFails THEN New(ErrRead)
    ELSE LET output == Unmarshal(response.body) IN
         IF output.err \/ output.Error = ""
         THEN New(response.body)
         ELSE New(<<output.Error>>)

makeRequest(request) ==
    LET dispatched == WithAuth(request) IN
    IF srv.kind = "transportError"
    THEN [dispatched |-> dispatched, bytes |-> NilBytes, err |-> ConnectError(request, TransportError)]
    ELSE IF srv.status # StatusOK
    THEN [dispatched |-> dispatched, bytes |-> NilBytes, err |-> StatusError(srv)]
    ELSE IF srv.readFails
    THEN [dispatched |-> dispatched, bytes |-> NilBytes, err |-> Wrap(ReadError, ErrRead)]
    ELSE [dispatched |-> dispatched, bytes |-> Bytes(srv.body), err |-> NilErr]

\* what the transport is given: method, URL string, headers and body
OnWire(request) ==
    [method |-> request.method, url |-> URLString(request.url),
     header |-> request.header, body |-> request.body]

\* build the request, and send it unless building failed
BuildAndSend(method, endpoint, body, qParams, contentType) ==
    LET built == operatorRequest(method, endpoint, body, qParams) IN
    IF ~built.err.nil
    THEN /\ result' = [bytes |-> NilBytes, err |-> built.err]
         /\ wire' = wire
    ELSE LET req == IF contentType = <<>> THEN built.req
                    ELSE [built.req EXCEPT !.header = HeaderSet(@, "Content-Type", contentType)]
             out == makeRequest(req)
         IN /\ result' = [bytes |-> out.bytes, err |-> out.err]
            /\ wire' = Append(wire, OnWire(out.dispatched))

HTTPGet ==
    /\ pc = "start"
    /\ call.name = "HTTPGet"
    /\ BuildAndSend("GET", call.endpoint, NilBody, call.qParams, <<>>)
    /\ pc' = "returned"
    /\ UNCHANGED <<cfg, call, srv, exit, streamVars, handles, operator>>

HTTPPostJSON ==
    /\ pc = "start"
    /\ call.name = "HTTPPostJSON"
    /\ BuildAndSend("POST", call.endpoint, Bytes(call.payload), call.qParams,
                    <<"application/json">>)
    /\ pc' = "returned"
    /\ UNCHANGED <<cfg, call, srv, exit, streamVars, handles, operator>>

(***************************************************************************)
(* Upload Encoder: HTTPUpload, addFileToMultipart, HTTPUploadZip.          *)
(* A multipart body is, for every part, the boundary, the form field name, *)
(* the file name and the content, and a closing boundary at the end.       *)
(***************************************************************************)
NoHandles == [opened |-> <<>>, closed |-> <<>>]
Boundary == "--boundary"
ClosingBoundary == "--boundary--"
FormDataContentType == <<"multipart/form-data; boundary=", "boundary">>
ErrReadFile(path) == <<"unable to read file: ", path>>

\* the files of the machine the CLI runs on: two files, a directory (which
\* opens, but does not read), and a path that does not exist
FileSystem ==
    [path \in {"/work/a.yaml", "/work/b.py", "/work/dir", "/work/gone"} |->
        CASE path = "/work/a.yaml" -> [exists |-> TRUE, reads |-> TRUE, data |-> <<"x">>]
          [] path = "/work/b.py" -> [exists |-> TRUE, reads |-> TRUE, data |-> <<"y", "x">>]
          [] path = "/work/dir" -> [exists |-> TRUE, reads |-> FALSE, data |-> <<>>]
          [] OTHER -> [exists |-> FALSE, reads |-> FALSE, data |-> <<>>]]

PartHeader_NoFileName(fileName) == <<Boundary, "name=", fileName, "filename=", "">>

\* writer.CreateFormFile(fileName, fileName): the header of a part
PartHeader(fileName) == <<Boundary, "name=", fileName, "filename=", fileName>>

\* addFileToMultipart: the part's header, then io.Copy of the reader
addFileToMultipart(fileName, body, reader) ==
    IF ~reader.reads
    THEN [err |-> Wrap(ReadError, ErrCantMakeRequest), body |-> body \o PartHeader(fileName)]
    ELSE [err |-> NilErr, body |-> body \o PartHeader(fileName) \o reader.data]

\* bytes.NewReader(fileBytes)
BytesReader(fileBytes) == [exists |-> TRUE, reads |-> TRUE, data |-> fileBytes]

RECURSIVE AddFiles_SkipsUnopenable(_, _, _, _)
AddFiles_SkipsUnopenable(filePaths, order, i, acc) ==
    IF i > Len(order) THEN acc
    ELSE LET fileName == order[i]
             filePath == filePaths[fileName]
         IN IF ~FileSystem[filePath].exists \/ ~FileSystem[filePath].reads
            THEN AddFiles_SkipsUnopenable(filePaths, order, i + 1, acc)
            ELSE LET added == addFileToMultipart(fileName, acc.body, FileSystem[filePath])
                 IN AddFiles_SkipsUnopenable(filePaths, order, i + 1,
                        [err |-> added.err, body |-> added.body,
                         opened |-> Append(acc.opened, filePath)])

RECURSIVE AddFiles(_, _, _, _)
\* the loop over input.FilePaths, in the order the map is ranged over
AddFiles(filePaths, order, i, acc) ==
    IF i > Len(order) THEN acc
    ELSE LET fileName == order[i]
             filePath == filePaths[fileName]
         IN IF ~FileSystem[filePath].exists
            THEN [acc EXCEPT !.err = Wrap(ReadError, ErrReadFile(filePath))]
            ELSE LET added == addFileToMultipart(fileName, acc.body, FileSystem[filePath])
                     next == [err |-> added.err, body |-> added.body,
                              opened |-> Append(acc.opened, filePath)]
                 IN IF ~added.err.nil THEN next
                    ELSE AddFiles(filePaths, order, i + 1, next)

RECURSIVE AddBytes_RejectsCollision(_, _, _, _)
AddBytes_RejectsCollision(bytes, order, i, acc) ==
    IF i > Len(order) THEN acc
    ELSE IF \E j \in 1..(Len(acc.body) - 1) :
                acc.body[j] = "name=" /\ acc.body[j + 1] = order[i]
    THEN [acc EXCEPT !.err = New(<<"duplicate part: ", order[i]>>)]
    ELSE LET added == addFileToMultipart(order[i], acc.body, BytesReader(bytes[order[i]]))
             next == [acc EXCEPT !.err = added.err, !.body = added.body]
         IN IF ~added.err.nil THEN next
            ELSE AddBytes_RejectsCollision(bytes, order, i + 1, next)

RECURSIVE AddBytes(_, _, _, _)
\* the loop over input.Bytes, in the order the map is ranged over
AddBytes(bytes, order, i, acc) ==
    IF i > Len(order) THEN acc
    ELSE LET added == addFileToMultipart(order[i], acc.body, BytesReader(bytes[order[i]]))
             next == [acc EXCEPT !.err = added.err, !.body = added.body]
         IN IF ~added.err.nil THEN next
            ELSE AddBytes(bytes, order, i + 1, next)

\* the orders in which a map with these keys can be ranged over
Orders(keys) ==
    {order \in [1..Cardinality(keys) -> keys] :
        \A i, j \in 1..Cardinality(keys) : i # j => order[i] # order[j]}

RECURSIVE Reverse(_)
Reverse(seq) == IF seq = <<>> THEN <<>> ELSE Append(Reverse(Tail(seq)), Head(seq))

\* the multipart body HTTPUpload builds: the parts of the files, then the
\* parts of the byte slices, then writer.Close()
EncodeUpload(filePaths, fileOrder, bytes, bytesOrder) ==
    LET files == AddFiles(filePaths, fileOrder, 1,
                          [err |-> NilErr, body |-> <<>>, opened |-> <<>>])
    IN IF ~files.err.nil THEN files
       ELSE LET all == AddBytes(bytes, bytesOrder, 1, files) IN
            IF ~all.err.nil THEN all
            ELSE [all EXCEPT !.body = Append(@, ClosingBoundary)]

DeferredFileCloses_LastOnly(opened) ==
    IF opened = <<>> THEN <<>> ELSE <<opened[Len(opened)]>>

\* the deferred file.Close() calls, run when HTTPUpload returns: one for
\* every file opened, the last opened first
DeferredFileCloses(opened) == Reverse(opened)

\* HTTPUpload from its first line to its return, deferred file.Close() included
Upload(endpoint, filePaths, bytes, qParams) ==
    \E fileOrder \in Orders(DOMAIN filePaths), bytesOrder \in Orders(DOMAIN bytes) :
        LET encoded == EncodeUpload(filePaths, fileOrder, bytes, bytesOrder) IN
        /\ IF ~encoded.err.nil
           THEN /\ result' = [bytes |-> NilBytes, err |-> encoded.err]
                /\ wire' = wire
           ELSE BuildAndSend("POST", endpoint, Bytes(encoded.body), qParams,
                             FormDataContentType)
        /\ handles' = [opened |-> encoded.opened, closed |-> DeferredFileCloses(encoded.opened)]

HTTPUpload ==
    /\ pc = "start"
    /\ call.name = "HTTPUpload"
    /\ Upload(call.endpoint, call.FilePaths, call.Bytes, call.qParams)
    /\ pc' = "returned"
    /\ UNCHANGED <<cfg, call, srv, exit, streamVars, operator>>

\* util.ZipToMem: the archive of the input, or an error
ZipToMem(zipInput) ==
    IF zipInput.fails THEN [err |-> New(<<"unable to zip">>), data |-> <<>>]
    ELSE [err |-> NilErr, data |-> <<"PK">> \o zipInput.data]

HTTPUploadZip ==
    /\ pc = "start"
    /\ call.name = "HTTPUploadZip"
    /\ LET zipped == ZipToMem(call.zipInput) IN
       IF ~zipped.err.nil
       THEN /\ result' = [bytes |-> NilBytes,
                          err |-> Wrap(zipped.err, <<"failed to zip configuration file">>)]
            /\ UNCHANGED <<wire, handles>>
       ELSE Upload(call.endpoint, EmptyValues,
                   [name \in {call.fileName} |-> zipped.data], call.qParams)
    /\ pc' = "returned"
    /\ UNCHANGED <<cfg, call, srv, exit, streamVars, operator>>

(***************************************************************************)
(* Log Stream Session: StreamLogs, handleConnection, closeConnection.      *)
(***************************************************************************)
NoSignals == [notified |-> FALSE, buffered |-> 0, delivered |-> 0]
NoConn == [dialed |-> FALSE,       \* Dial returned a connection
           closed |-> FALSE,       \* connection.Close() has run
           closeFrames |-> 0,      \* close frames written by the client
           body |-> "none",        \* handshake response body: none, open, closed
           done |-> 0,             \* how often close(done) has run
           reader |-> "none",      \* reader goroutine: none, running, readFailed
           peer |-> "none"]        \* operator side: none, open, closed, failed

InterruptBuffer == 1

\* errors.Exit: print the message and end the process; deferred calls do not run
Exit(msg) == [by |-> "errors.Exit", msg |-> msg]
\* os.Exit(1) in the reader goroutine
OsExit == [by |-> "os.Exit", msg |-> <<>>]

\* strings.Replace(wsURL, "http", "ws", 1)
ReplaceToken(tok) ==
    CASE tok = "http" -> "ws"
      [] tok = "https" -> "wss"
      [] OTHER -> tok
HasHTTP(tok) == tok \in {"http", "https"}
ReplaceHTTPOnce(urlStr) ==
    LET at == {i \in 1..Len(urlStr) : HasHTTP(urlStr[i])} IN
    IF at = {} THEN urlStr
    ELSE LET first == CHOOSE i \in at : \A j \in at : i <= j IN
         [urlStr EXCEPT ![first] = ReplaceToken(@)]

\* the query parameters StreamLogs sets on the request of operatorRequest
LogsValues ==
    SetAll(EmptyValues,
           [k \in {<<"resourceName">>, <<"resourceType">>, <<"appName">>, <<"verbose">>} |->
               CASE k = <<"resourceName">> -> call.resourceName
                 [] k = <<"resourceType">> -> call.resourceType
                 [] k = <<"appName">> -> call.appName
                 [] OTHER -> IF call.verbose THEN <<"true">> ELSE <<"false">>])

wsURLOf(request) ==
    ReplaceHTTPOnce(URLString([request.url EXCEPT !.RawQuery = Encode(LogsValues)]))

DialHeader_VersionOnly == HeaderSet({}, "CortexAPIVersion", CortexVersion)

\* the header StreamLogs hands to the dialer
DialHeader ==
    HeaderSet(HeaderSet({}, "Authorization", authHeader),
              "CortexAPIVersion", CortexVersion)

RejectionMessage_EmptyBodySurfaced(response, wsURL) ==
    IF response.readFails
    THEN ErrFailedToConnect(CleanURL(wsURL))
    ELSE LET output == Unmarshal(response.body) IN
         IF output.err \/ output.Error = ""
         THEN response.body
         ELSE <<output.Error>>

\* what StreamLogs exits with when the dial returned an error and a response
RejectionMessage(response, wsURL) ==
    IF response.readFails \/ response.body = <<>>
    THEN ErrFailedToConnect(CleanURL(wsURL))
    ELSE LET output == Unmarshal(response.body) IN
         IF output.err \/ output.Error = ""
         THEN response.body
         ELSE <<output.Error>>

\* signal.Notify(interrupt, os.Interrupt) on a channel with a buffer of one
StreamLogsStart ==
    /\ pc = "start"
    /\ call.name = "StreamLogs"
    /\ exit.by = "none"
    /\ sig' = [sig EXCEPT !.notified = TRUE]
    /\ pc' = "connecting"
    /\ UNCHANGED <<cfg, call, result, wire, srv, exit, conn, sent, nread, stdout, handles, operator>>

\* operatorRequest, the dial, and either errors.Exit or the reader goroutine
\* started by handleConnection
StreamLogsDial ==
    /\ pc = "connecting"
    /\ exit.by = "none"
    /\ LET built == operatorRequest("GET", "/logs/read", NilBody, <<>>) IN
       IF ~built.err.nil
       THEN /\ exit' = Exit(built.err.msg)
            /\ pc' = "exited"
            /\ UNCHANGED <<wire, conn>>
       ELSE LET wsURL == wsURLOf(built.req) IN
            /\ wire' = Append(wire, [method |-> "GET", url |-> wsURL,
                                     header |-> DialHeader, body |-> NilBody])
            /\ IF srv.kind = "transportError"
               THEN /\ exit' = Exit(ErrFailedToConnect(CleanURL(wsURL)))
                    /\ pc' = "exited"
                    /\ conn' = conn
               ELSE IF srv.kind = "response"
               THEN /\ exit' = Exit(RejectionMessage(srv, wsURL))
                    /\ pc' = "exited"
                    /\ conn' = [conn EXCEPT !.body = "open"]
               ELSE /\ exit' = exit
                    /\ pc' = "select"
                    /\ conn' = [conn EXCEPT !.dialed = TRUE, !.body = "open",
                                            !.reader = "running", !.peer = "open"]
    /\ UNCHANGED <<cfg, call, result, srv, sig, sent, nread, stdout, handles, operator>>

(***************************************************************************)
(* The completion marker: ^workload: (\w+), completed: (\S+)               *)
(***************************************************************************)
Timestamps == {"2024-01-01T00:00:00Z"}
WordTokens == {"job1", "starting"}
NonSpaceTokens == WordTokens \cup Timestamps \cup {"not-a-time"}
\* the characters of a token up to its first space, when the token has a space
NonSpaceHead(tok) ==
    CASE tok = "workload: " -> <<"workload:">>
      [] tok = ", completed: " -> <<",">>
      [] OTHER -> <<>>

RECURSIVE WordRun(_, _)
\* the number of tokens of \w characters from position i on
WordRun(frame, i) ==
    IF i <= Len(frame) /\ frame[i] \in WordTokens THEN 1 + WordRun(frame, i + 1) ELSE 0

RECURSIVE NonSpaceRun(_, _)
\* what \S+ takes from position i on
NonSpaceRun(frame, i) ==
    IF i > Len(frame) THEN <<>>
    ELSE IF frame[i] \in NonSpaceTokens THEN <<frame[i]>> \o NonSpaceRun(frame, i + 1)
    ELSE NonSpaceHead(frame[i])

\* lastLogRe.FindStringSubmatch: whether the frame matches, and match[2]
FindStringSubmatch(frame) ==
    LET n == WordRun(frame, 2)
        stamp == NonSpaceRun(frame, n + 3)
    IN IF /\ Len(frame) >= n + 3
          /\ frame[1] = "workload: "
          /\ n >= 1
          /\ frame[n + 2] = ", completed: "
          /\ stamp # <<>>
       THEN [matched |-> TRUE, stamp |-> stamp]
       ELSE [matched |-> FALSE, stamp |-> <<>>]

\* time.Parse(time.RFC3339, match[2])
ParsesRFC3339(stamp) == Len(stamp) = 1 /\ stamp[1] \in Timestamps
\* util.LocalTimestampHuman
LocalTimestampHuman(stamp) ==
    CASE stamp[1] = "2024-01-01T00:00:00Z" -> "Monday, January 1, 2024 at 12:00am UTC"
      [] OTHER -> "?"

PrintedFor_BadStampDropped(frame) ==
    LET match == FindStringSubmatch(frame) IN
    IF match.matched
    THEN IF ~ParsesRFC3339(match.stamp)
         THEN <<>>
         ELSE <<"\nCompleted on ", LocalTimestampHuman(match.stamp)>>
    ELSE frame

\* the line the reader prints for a frame
PrintedFor(frame) ==
    LET match == FindStringSubmatch(frame) IN
    IF match.matched
    THEN IF ~ParsesRFC3339(match.stamp)
         THEN frame
         ELSE <<"\nCompleted on ", LocalTimestampHuman(match.stamp)>>
    ELSE frame

\* what connection.ReadMessage can return now: the next frame, or an error
\* once the connection is closed or lost or the operator has closed it
ReadOutcomes ==
    (IF nread < Len(sent) /\ ~conn.closed /\ conn.peer # "failed"
     THEN {"frame"} ELSE {})
    \cup (IF conn.closed \/ conn.peer = "failed"
              \/ (conn.peer = "closed" /\ nread = Len(sent))
          THEN {"error"} ELSE {})

ReadMessage_NewestFirst(frames, n) == frames[Len(frames)]

\* the frame connection.ReadMessage returns when n frames have been read:
\* the frames of a connection arrive in the order they were written
ReadMessage(frames, n) == frames[n + 1]

\* one turn of the reader's loop: ReadMessage returns the next frame, which
\* is printed; or it returns an error and the process exits
ReaderStep ==
    /\ conn.reader = "running"
    /\ exit.by = "none"
    /\ \E outcome \in ReadOutcomes :
         IF outcome = "frame"
         THEN /\ nread' = nread + 1
              /\ stdout' = Append(stdout, PrintedFor(ReadMessage(sent, nread)))
              /\ UNCHANGED <<conn, exit>>
         ELSE /\ conn' = [conn EXCEPT !.reader = "readFailed"]
              /\ exit' = OsExit
              /\ UNCHANGED <<nread, stdout>>
    /\ UNCHANGED <<cfg, call, pc, result, wire, srv, sig, sent, handles, operator>>

ReadyCases_DoneWithoutClose ==
    (IF conn.reader = "running" THEN {"done"} ELSE {})
    \cup (IF sig.buffered > 0 THEN {"interrupt"} ELSE {})

\* the cases of the select that can proceed
ReadyCases ==
    (IF conn.done > 0 THEN {"done"} ELSE {})
    \cup (IF sig.buffered > 0 THEN {"interrupt"} ELSE {})

WriteCloseMessage_Twice(connection) == [connection EXCEPT !.closeFrames = @ + 2]

\* connection.WriteMessage(websocket.CloseMessage, ...)
WriteCloseMessage(connection) == [connection EXCEPT !.closeFrames = @ + 1]

\* closeConnection: the select over done and interrupt
closeConnection ==
    /\ pc = "select"
    /\ exit.by = "none"
    /\ \E ready \in ReadyCases :
         IF ready = "done"
         THEN UNCHANGED <<sig, conn>>
         ELSE /\ sig' = [sig EXCEPT !.buffered = @ - 1]
              /\ conn' = WriteCloseMessage(conn)
    /\ pc' = "deferConn"
    /\ UNCHANGED <<cfg, call, result, wire, srv, exit, sent, nread, stdout, handles, operator>>

\* defer connection.Close()
DeferredConnectionClose ==
    /\ pc = "deferConn"
    /\ exit.by = "none"
    /\ conn' = [conn EXCEPT !.closed = TRUE]
    /\ pc' = "deferBody"
    /\ UNCHANGED <<cfg, call, result, wire, srv, exit, sig, sent, nread, stdout, handles, operator>>

\* defer response.Body.Close(), after which StreamLogs has returned
DeferredBodyClose ==
    /\ pc = "deferBody"
    /\ exit.by = "none"
    /\ conn' = [conn EXCEPT !.body = "closed"]
    /\ pc' = "returned"
    /\ UNCHANGED <<cfg, call, result, wire, srv, exit, sig, sent, nread, stdout, handles, operator>>

NotifySend_Dropped(signals) == [signals EXCEPT !.delivered = @ + 1]

\* the signal package's send on the notified channel: it does not block,
\* so the signal is dropped when the buffer is full
NotifySend(signals) ==
    [signals EXCEPT !.delivered = @ + 1,
                    !.buffered = IF @ < InterruptBuffer THEN @ + 1 ELSE @]

\* the operating system delivers an interrupt: before signal.Notify it ends
\* the process; afterwards it is put in the channel unless the buffer is full
Interrupt ==
    /\ call.name = "StreamLogs"
    /\ exit.by = "none"
    /\ sig.delivered < MaxSignals
    /\ IF ~sig.notified
       THEN /\ exit' = [by |-> "SIGINT", msg |-> <<>>]
            /\ sig' = [sig EXCEPT !.delivered = @ + 1]
       ELSE /\ exit' = exit
            /\ sig' = NotifySend(sig)
    /\ UNCHANGED <<cfg, call, pc, result, wire, srv, conn, sent, nread, stdout, handles, operator>>

\* log frames of the operator: a plain line, a completion marker, a marker
\* with a bad timestamp, a marker followed by text after a space and without
\* one, a marker without workload, a marker that does not start the frame
StreamFrames ==
    { <<"starting", " ", "job1">>,
      <<"workload: ", "job1", ", completed: ", "2024-01-01T00:00:00Z">>,
      <<"workload: ", "job1", ", completed: ", "not-a-time">>,
      <<"workload: ", "job1", ", completed: ", "2024-01-01T00:00:00Z", " ", "job1">>,
      <<"workload: ", "job1", ", completed: ", "2024-01-01T00:00:00Z", "not-a-time">>,
      <<"workload: ", ", completed: ", "2024-01-01T00:00:00Z">>,
      <<" ", "workload: ", "job1", ", completed: ", "2024-01-01T00:00:00Z">> }

\* the operator writes a frame
ServerSend ==
    /\ conn.peer = "open"
    /\ exit.by = "none"
    /\ Len(sent) < MaxFrames
    /\ \E frame \in StreamFrames : sent' = Append(sent, frame)
    /\ UNCHANGED <<cfg, call, pc, result, wire, srv, exit, sig, conn, nread, stdout, handles, operator>>

\* the operator closes the stream, or the network drops the connection
PeerEnds ==
    /\ conn.peer = "open"
    /\ exit.by = "none"
    /\ \E how \in {"closed", "failed"} : conn' = [conn EXCEPT !.peer = how]
    /\ UNCHANGED <<cfg, call, pc, result, wire, srv, exit, sig, sent, nread, stdout, handles, operator>>

(***************************************************************************)
(* The operator's Delete endpoint.  getRequiredQParam,                     *)
(* getOptionalBoolQParam, workloads.DeleteApp, Respond, RespondError and   *)
(* RespondIfError are not part of the sources at hand.                     *)
(***************************************************************************)
Apps == {"foo", "bar"}
NoOperator == [deployed |-> {}, cached |-> {}, handled |-> <<>>]
Absent == "<absent>"

ErrQueryParamRequired(name) == <<"query params required: ", name>>
ErrAppNotDeployed(appName) == <<"app is not deployed: ", appName>>
ResDeploymentDeleted == <<"Deployment deleted">>

\* r.URL.Query().Get(name), an error when it is empty
getRequiredQParam(name, query) ==
    IF query[name] \in {Absent, ""}
    THEN [value |-> "", err |-> New(ErrQueryParamRequired(name))]
    ELSE [value |-> query[name], err |-> NilErr]
\* the parameter as a boolean, the default when it is absent or no boolean
getOptionalBoolQParam(name, default, query) ==
    CASE query[name] = "true" -> TRUE
      [] query[name] = "false" -> FALSE
      [] OTHER -> default

RespondError(err) == [kind |-> "error", message |-> err.msg]
Respond(message) == [kind |-> "ok", message |-> message]

DeleteResponses_NoReturnAfterError(appName, wasDeployed) ==
    IF ~wasDeployed
    THEN <<RespondError(New(ErrAppNotDeployed(appName))), Respond(ResDeploymentDeleted)>>
    ELSE <<Respond(ResDeploymentDeleted)>>

\* what Delete writes once workloads.DeleteApp has returned
DeleteResponses(appName, wasDeployed) ==
    IF ~wasDeployed
    THEN <<RespondError(New(ErrAppNotDeployed(appName)))>>
    ELSE <<Respond(ResDeploymentDeleted)>>

DeleteAppCalls_NoReturnOnMissing(required, keepCache, deployed) ==
    <<[appName |-> required.value, keepCache |-> keepCache,
       wasDeployed |-> required.value \in deployed]>>

\* the calls of workloads.DeleteApp Delete makes: none when the required
\* parameter is missing (RespondIfError wrote the error and Delete returned)
DeleteAppCalls(required, keepCache, deployed) ==
    IF ~required.err.nil THEN <<>>
    ELSE <<[appName |-> required.value, keepCache |-> keepCache,
            wasDeployed |-> required.value \in deployed]>>

\* Delete(w, r) for a request with the given query
Delete ==
    /\ call.name = "operator"
    /\ Len(operator.handled) < MaxRequests
    /\ \E query \in [{"appName", "keepCache"} -> {Absent, "", "true", "false", "foo", "bar"}] :
        /\ query["appName"] \in {Absent, "", "foo", "bar"}
        /\ query["keepCache"] \in {Absent, "true", "false", "foo"}
        /\ LET required == getRequiredQParam("appName", query)
               keepCache == getOptionalBoolQParam("keepCache", FALSE, query)
               calls == DeleteAppCalls(required, keepCache, operator.deployed)
           IN
           IF calls = <<>>
           THEN operator' = [operator EXCEPT !.handled =
                    Append(@, [query |-> query, deleteApp |-> calls,
                               responses |-> <<RespondError(required.err)>>])]
           ELSE LET appName == calls[1].appName
                    wasDeployed == calls[1].wasDeployed
                IN operator' =
                    [deployed |-> operator.deployed \ {appName},
                     cached |-> IF calls[1].keepCache THEN operator.cached
                                ELSE operator.cached \ {appName},
                     handled |-> Append(operator.handled,
                        [query |-> query,
                         deleteApp |-> calls,
                         responses |-> DeleteResponses(appName, wasDeployed)])]
    /\ UNCHANGED <<cfg, call, pc, result, wire, srv, exit, streamVars, handles>>

(***************************************************************************)
(* Inputs.                                                                 *)
(***************************************************************************)
KeyIDs == {"AKIA1", "AKIA2"}
Secrets == {"s3cr3t"}
Configs == [CortexURL : BaseURLs, AWSAccessKeyID : KeyIDs, AWSSecretAccessKey : Secrets]

QKeys == {<<"b">>, <<"a", "&">>}
QVals == {<<>>, <<"a">>, <<"=", "&">>}
ParamMaps == UNION {[D -> QVals] : D \in SUBSET QKeys}

NoExit == [by |-> "none", msg |-> <<>>]
NoResult == [bytes |-> NilBytes, err |-> NilErr]

Statuses == {200, 404}
TransportFailure == [kind |-> "transportError", status |-> 0, body |-> <<>>, readFails |-> FALSE]
Answer(status, body) == [kind |-> "response", status |-> status, body |-> body, readFails |-> FALSE]
UnreadableAnswer(status) == [kind |-> "response", status |-> status, body |-> <<>>, readFails |-> TRUE]

InitCommon ==
    /\ pc = "start"
    /\ result = NoResult
    /\ wire = <<>>
    /\ exit = NoExit
    /\ sig = NoSignals
    /\ conn = NoConn
    /\ sent = <<>>
    /\ nread = 0
    /\ stdout = <<>>
    /\ handles = NoHandles

HTTPCalls == {"HTTPGet", "HTTPPostJSON"}
SimpleCall(name, qParams) ==
    [name |-> name, endpoint |-> "/deploy", qParams |-> qParams, payload |-> <<"{}">>,
     appName |-> <<>>, resourceName |-> <<>>, resourceType |-> <<>>, verbose |-> FALSE]
StreamCall(verbose) ==
    [name |-> "StreamLogs", endpoint |-> "/logs/read", qParams |-> <<>>, payload |-> <<>>,
     appName |-> <<"app">>, resourceName |-> <<"a", " ", "b">>, resourceType |-> <<"a">>,
     verbose |-> verbose]
UploadNames == {"config", "model"}
UploadPaths == DOMAIN FileSystem
UploadContents == {<<>>, <<"x", "y">>}
FilePathMaps == UNION {[D -> UploadPaths] : D \in SUBSET UploadNames}
BytesMaps == UNION {[D -> UploadContents] : D \in SUBSET UploadNames}
UploadCall(filePaths, bytes) ==
    [name |-> "HTTPUpload", endpoint |-> "/deploy", qParams |-> <<>>,
     FilePaths |-> filePaths, Bytes |-> bytes]
ZipCall(fails) ==
    [name |-> "HTTPUploadZip", endpoint |-> "/deploy", qParams |-> <<>>,
     zipInput |-> [fails |-> fails, data |-> <<"x">>], fileName |-> "config"]
Accepted == [kind |-> "accepted", status |-> 101, body |-> <<>>, readFails |-> FALSE]

\* the Response Unifier against every answer of the operator
InitHTTP ==
    /\ InitCommon
    /\ operator = NoOperator
    /\ cfg \in {c \in Configs : c.AWSAccessKeyID = "AKIA1"}
    /\ \E name \in HTTPCalls : call = SimpleCall(name, <<>>)
    /\ \/ srv = TransportFailure
       \/ \E st \in Statuses : srv = UnreadableAnswer(st)
       \/ \E st \in Statuses, b \in Bodies : srv = Answer(st, b)

NextHTTP == HTTPGet \/ HTTPPostJSON
SpecHTTP == InitHTTP /\ [][NextHTTP]_vars

\* the Request Builder against every list of query-parameter maps
InitQuery ==
    /\ InitCommon
    /\ operator = NoOperator
    /\ cfg \in {c \in Configs : c.AWSAccessKeyID = "AKIA1"}
    /\ \E name \in HTTPCalls, q \in BoundedSeq(ParamMaps, MaxMaps) :
            call = SimpleCall(name, q)
    /\ srv = Answer(200, <<>>)

NextQuery == HTTPGet \/ HTTPPostJSON
SpecQuery == InitQuery /\ [][NextQuery]_vars

\* one invocation of the client: an HTTP helper or StreamLogs
Init ==
    /\ InitCommon
    /\ operator = NoOperator
    /\ cfg \in {c \in Configs : c.AWSAccessKeyID = "AKIA1"}
    /\ \/ /\ \E name \in HTTPCalls, q \in BoundedSeq(ParamMaps, 1) : call = SimpleCall(name, q)
          /\ srv \in {TransportFailure, Answer(200, <<"text">>), Answer(404, <<"text">>)}
       \/ /\ \/ \E f \in FilePathMaps, b \in BytesMaps :
                    /\ Cardinality(DOMAIN f) + Cardinality(DOMAIN b) <= 2
                    /\ call = UploadCall(f, b)
             \/ \E fails \in BOOLEAN : call = ZipCall(fails)
          /\ srv \in {TransportFailure, Answer(200, <<"text">>)}
       \/ /\ \E v \in BOOLEAN : call = StreamCall(v)
          /\ srv \in {TransportFailure, Accepted, UnreadableAnswer(403), Answer(403, <<>>),
                      Answer(403, <<"text">>),
                      Answer(403, <<"{", "\"error\":", "\"X\"", "}">>)}

Next ==
    \/ HTTPGet
    \/ HTTPPostJSON
    \/ HTTPUpload
    \/ HTTPUploadZip
    \/ StreamLogsStart
    \/ StreamLogsDial
    \/ ReaderStep
    \/ closeConnection
    \/ DeferredConnectionClose
    \/ DeferredBodyClose
    \/ Interrupt
    \/ ServerSend
    \/ PeerEnds
Spec == Init /\ [][Next]_vars

\* the Upload Encoder against every upload spec
InitUpload ==
    /\ InitCommon
    /\ operator = NoOperator
    /\ cfg \in {c \in Configs : c.AWSAccessKeyID = "AKIA1"}
    /\ \/ \E f \in FilePathMaps, b \in BytesMaps : call = UploadCall(f, b)
       \/ \E fails \in BOOLEAN : call = ZipCall(fails)
    /\ srv \in {TransportFailure, Answer(200, <<"text">>)}

NextUpload == HTTPUpload \/ HTTPUploadZip
SpecUpload == InitUpload /\ [][NextUpload]_vars

\* the operator's Delete endpoint, for every set of deployed apps
InitDelete ==
    /\ InitCommon
    /\ \E deployed \in SUBSET Apps, cached \in SUBSET Apps :
            operator = [deployed |-> deployed, cached |-> cached, handled |-> <<>>]
    /\ cfg \in {c \in Configs : c.AWSAccessKeyID = "AKIA1" /\ Len(c.CortexURL) = 4}
    /\ call = [name |-> "operator"]
    /\ srv = TransportFailure

NextDelete == Delete
SpecDelete == InitDelete /\ [][NextDelete]_vars

\* the dial of StreamLogs against every answer of the operator
InitDial ==
    /\ InitCommon
    /\ operator = NoOperator
    /\ cfg \in {c \in Configs : c.AWSAccessKeyID = "AKIA1"}
    /\ call = StreamCall(TRUE)
    /\ \/ srv \in {TransportFailure, Accepted, UnreadableAnswer(403)}
       \/ \E b \in Bodies : srv = Answer(403, b)

NextDial == StreamLogsStart \/ StreamLogsDial
SpecDial == InitDial /\ [][NextDial]_vars

\* one log-stream session, with the scheduling the Go runtime gives: the
\* goroutine of StreamLogs and the reader goroutine each run when they can
InitStream ==
    /\ InitCommon
    /\ operator = NoOperator
    /\ cfg \in {c \in Configs : c.AWSAccessKeyID = "AKIA1" /\ Len(c.CortexURL) = 3}
    /\ call = StreamCall(TRUE)
    /\ srv \in {TransportFailure, Accepted, Answer(403, <<"text">>)}

NextStream ==
    \/ StreamLogsStart
    \/ StreamLogsDial
    \/ ReaderStep
    \/ closeConnection
    \/ DeferredConnectionClose
    \/ DeferredBodyClose
    \/ Interrupt
    \/ ServerSend
    \/ PeerEnds

\* (the dial itself waits for the network and is given no fairness)
Scheduling ==
    /\ WF_vars(closeConnection)
    /\ WF_vars(DeferredConnectionClose)
    /\ WF_vars(DeferredBodyClose)
    /\ WF_vars(ReaderStep)

SpecStream == InitStream /\ [][NextStream]_vars /\ Scheduling

(***************************************************************************)
(* Claims about the Response Unifier and the Request Builder.              *)
(***************************************************************************)
HTTPReturned == pc = "returned" /\ call.name \in HTTPCalls /\ Len(wire) = 1
ErrorEnvelope(str) == <<"{", "\"error\":", str, "}">>
HasErrorKey(body) == \E i \in 1..Len(body) : body[i] = "\"error\":"
FailedStatus == HTTPReturned /\ srv.kind = "response" /\ srv.status # 200

\* C3 (as stated): for a non-200 response whose body was read, a body
\* {"error":"X"} gives the error message X, a body that is not JSON or has
\* no error field gives the raw body as the message, and no bytes are returned.
C3_AnyEnvelopeGivesItsError ==
    (FailedStatus /\ ~srv.readFails) =>
        /\ result.bytes.nil
        /\ \A str \in JsonStrings :
              srv.body = ErrorEnvelope(str) => result.err.msg = <<StringValue(str)>>
        /\ (~IsObject(srv.body) \/ ~HasErrorKey(srv.body)) => result.err.msg = srv.body

\* C3 (amended): for a non-200 response, a body {"error":"X"} with X not
\* empty gives the message X; a body {"error":""}, a body that is not JSON
\* and a body without error field give the raw body; a body that cannot be
\* read gives ErrRead; no bytes are returned in any of these cases.
C3_NonEmptyEnvelopeGivesItsError ==
    FailedStatus =>
        /\ result.bytes.nil
        /\ ~result.err.nil
        /\ srv.readFails => result.err.msg = ErrRead
        /\ ~srv.readFails =>
            /\ srv.body = ErrorEnvelope("\"X\"") => result.err.msg = <<"X">>
            /\ srv.body = ErrorEnvelope("\"\"") => result.err.msg = srv.body
            /\ (~IsObject(srv.body) \/ ~HasErrorKey(srv.body)) => result.err.msg = srv.body

C3_Witness ==
    /\ FailedStatus
    /\ srv.body = ErrorEnvelope("\"X\"")
    /\ result.err.msg = <<"X">>
    /\ result.bytes.nil

LastMapWith(k) ==
    LET at == {i \in 1..Len(call.qParams) : k \in DOMAIN call.qParams[i]} IN
    IF at = {} THEN 0 ELSE CHOOSE i \in at : \A j \in at : j <= i

\* C6: the query of the URL built by operatorRequest has exactly the keys of
\* the maps passed, each with the value of the last map that has the key.
C6_LaterMapsOverride ==
    HTTPReturned =>
        LET query == ParseQuery(RawQueryOf(wire[1].url)) IN
        /\ DOMAIN query = {k \in QKeys : LastMapWith(k) # 0}
        /\ \A k \in DOMAIN query : query[k] = <<call.qParams[LastMapWith(k)][k]>>

C6_Witness ==
    /\ HTTPReturned
    /\ Len(call.qParams) = 2
    /\ DOMAIN call.qParams[1] = {<<"b">>, <<"a", "&">>}
    /\ DOMAIN call.qParams[2] = {<<"b">>}
    /\ call.qParams[1][<<"b">>] # call.qParams[2][<<"b">>]
    /\ call.qParams[1][<<"a", "&">>] = <<"=", "&">>
    /\ ParseQuery(RawQueryOf(wire[1].url))[<<"b">>] = <<call.qParams[2][<<"b">>]>>

(***************************************************************************)
(* Claims about the Log Stream Session.                                    *)
(***************************************************************************)
\* C1: once the coordinator has taken the interrupt branch and written the
\* close frame, the process is not ended, whatever the reader goroutine and
\* the deferred connection release do (the operator and the network being
\* well).
C1_InterruptNeverEndsProcess ==
    (conn.closeFrames > 0 /\ conn.peer = "open") => exit.by = "none"

\* C2: without any interrupt, a failed read ends the reader, which closes
\* done, and the process is not ended.
C2_ReadFailureEndsOnlySession ==
    (conn.reader = "readFailed" /\ sig.delivered = 0) =>
        (exit.by = "none" /\ conn.done = 1)

HeaderValues(header, name) == {h[2] : h \in {x \in header : x[1] = name}}

\* C5: every request handed to the transport, by makeRequest or by the
\* websocket dial, has the Authorization header "CortexAWS <id>|<secret>" of
\* the configuration and the CortexAPIVersion header.
C5_EveryRequestIsAuthenticated ==
    \A i \in 1..Len(wire) :
        /\ HeaderValues(wire[i].header, "Authorization") =
              {<<"CortexAWS ", cfg.AWSAccessKeyID, "|", cfg.AWSSecretAccessKey>>}
        /\ HeaderValues(wire[i].header, "CortexAPIVersion") = {<<"0.8.0">>}

C5_Witness ==
    /\ call.name = "StreamLogs"
    /\ Len(wire) = 1
    /\ wire[1].url[1] = "wss"
    /\ HeaderValues(wire[1].header, "Authorization") # {}
    /\ conn.reader = "running"

\* a frame "workload: <word>, completed: <text>" of the frames above
LooksLikeMarker(frame) ==
    /\ Len(frame) >= 4
    /\ frame[1] = "workload: "
    /\ frame[2] \in {"job1", "starting"}
    /\ frame[3] = ", completed: "
    /\ frame[4] # " "
\* the text after "completed: ", up to the next space, is an RFC3339 time
HasGoodStamp(frame) ==
    /\ frame[4] = "2024-01-01T00:00:00Z"
    /\ (Len(frame) = 4 \/ frame[5] = " ")

C7_EachFramePrinted ==
    /\ Len(stdout) = nread
    /\ \A i \in 1..Len(stdout) :
        IF LooksLikeMarker(sent[i]) /\ HasGoodStamp(sent[i])
        THEN stdout[i] = <<"\nCompleted on ", "Monday, January 1, 2024 at 12:00am UTC">>
        ELSE stdout[i] = sent[i]
C7_ReadingAFrameKeepsReading ==
    nread' = nread + 1 =>
        /\ conn'.reader = "running"
        /\ exit'.by = "none"
        /\ pc' = pc

\* C7: a frame that is a completion marker with an RFC3339 timestamp is
\* printed as "Completed on <local time>"; a marker whose timestamp does not
\* parse and a frame that is no marker are printed as they are; and reading
\* a frame, malformed marker or not, leaves the reader in its loop and the
\* session and the process as they were.
C7_FramesPrintedOrPassedThrough ==
    []C7_EachFramePrinted /\ [][C7_ReadingAFrameKeepsReading]_vars

C7_Witness ==
    /\ Len(stdout) = 2
    /\ sent[1] = <<"workload: ", "job1", ", completed: ", "not-a-time">>
    /\ stdout[1] = sent[1]
    /\ sent[2] = <<"workload: ", "job1", ", completed: ", "2024-01-01T00:00:00Z">>
    /\ stdout[2][1] = "\nCompleted on "
    /\ conn.reader = "running"
    /\ exit.by = "none"

DialAnswered == call.name = "StreamLogs" /\ Len(wire) = 1
DialFailed == DialAnswered /\ srv.kind \in {"transportError", "response"}
\* the URL StreamLogs dials, without credentials
SanitizedLogsURL ==
    <<IF cfg.CortexURL[1] = "https" THEN "wss" ELSE "ws", "://", "operator", "/logs/read", "?",
      "appName", "=", "app", "&", "resourceName", "=", "a", "+", "b", "&",
      "resourceType", "=", "a", "&", "verbose", "=",
      IF call.verbose THEN "true" ELSE "false">>
FailedToConnectMessage == <<"failed to connect to operator: ">> \o SanitizedLogsURL
DecodesToError(body) == ~Unmarshal(body).err /\ Unmarshal(body).Error # ""

\* C10 (as stated): a failed dial ends the process and starts no reader;
\* without response the message is ErrFailedToConnect with the sanitized
\* URL; with a rejection whose body was read the message is the decoded
\* error when the body decodes to a non-empty error, the raw body otherwise.
C10_RejectionGivesErrorOrRawBody ==
    DialFailed =>
        /\ exit.by = "errors.Exit"
        /\ pc = "exited"
        /\ conn.reader = "none"
        /\ nread = 0
        /\ srv.kind = "transportError" => exit.msg = FailedToConnectMessage
        /\ (srv.kind = "response" /\ ~srv.readFails) =>
              exit.msg = IF DecodesToError(srv.body)
                         THEN <<Unmarshal(srv.body).Error>>
                         ELSE srv.body

\* C10 (amended): a failed dial ends the process and starts no reader;
\* without response, and with a rejection whose body is empty or cannot be
\* read, the message is ErrFailedToConnect with the sanitized URL; with any
\* other rejection it is the decoded error when the body decodes to a
\* non-empty error, the raw body otherwise.
C10_EmptyRejectionIsFailedToConnect ==
    DialFailed =>
        /\ exit.by = "errors.Exit"
        /\ pc = "exited"
        /\ conn.reader = "none"
        /\ nread = 0
        /\ stdout = <<>>
        /\ (srv.kind = "transportError" \/ srv.readFails \/ srv.body = <<>>) =>
              exit.msg = FailedToConnectMessage
        /\ (srv.kind = "response" /\ ~srv.readFails /\ srv.body # <<>>) =>
              /\ exit.msg = IF DecodesToError(srv.body)
                            THEN <<Unmarshal(srv.body).Error>>
                            ELSE srv.body
              /\ srv.body = ErrorEnvelope("\"X\"") => exit.msg = <<"X">>
              /\ srv.body = ErrorEnvelope("\"\"") => exit.msg = srv.body

C10_Witness ==
    /\ DialFailed
    /\ srv.body = ErrorEnvelope("\"X\"")
    /\ exit.msg = <<"X">>
    /\ \E i \in 1..Len(cfg.CortexURL) : cfg.CortexURL[i] \in CredentialTokens

(***************************************************************************)
(* Claims about the Upload Encoder.                                        *)
(***************************************************************************)
RECURSIVE NextBoundary(_, _)
NextBoundary(body, i) ==
    IF i > Len(body) \/ body[i] \in {Boundary, ClosingBoundary} THEN i
    ELSE NextBoundary(body, i + 1)

RECURSIVE ReadParts(_)
\* mime/multipart Reader: the parts of a body, in order
ReadParts(body) ==
    IF body = <<>> \/ Head(body) # Boundary \/ Len(body) < 5 THEN <<>>
    ELSE LET end == NextBoundary(body, 2) IN
         <<[name |-> body[3], filename |-> body[5], content |-> SubSeq(body, 6, end - 1)]>>
         \o ReadParts(SubSeq(body, end, Len(body)))

UploadSent == pc = "returned" /\ call.name = "HTTPUpload" /\ Len(wire) = 1

\* C8: the body HTTPUpload sends has one part per FilePaths entry followed
\* by one part per Bytes entry, each named (field name and file name) by its
\* logical name and holding the content of its file or byte slice.
C8_OnePartPerEntryFilesFirst ==
    UploadSent =>
        LET parts == ReadParts(wire[1].body.data)
            nFiles == Cardinality(DOMAIN call.FilePaths)
            nBytes == Cardinality(DOMAIN call.Bytes)
        IN /\ Len(parts) = nFiles + nBytes
           /\ wire[1].body.data[Len(wire[1].body.data)] = ClosingBoundary
           /\ {parts[i].name : i \in 1..nFiles} = DOMAIN call.FilePaths
           /\ {parts[i].name : i \in (nFiles + 1)..Len(parts)} = DOMAIN call.Bytes
           /\ \A i \in 1..Len(parts) :
                /\ parts[i].filename = parts[i].name
                /\ parts[i].content =
                      IF i <= nFiles THEN FileSystem[call.FilePaths[parts[i].name]].data
                      ELSE call.Bytes[parts[i].name]

C8_Witness ==
    /\ UploadSent
    /\ call.FilePaths = [n \in {"config"} |-> "/work/b.py"]
    /\ call.Bytes = [n \in {"model"} |-> <<"x", "y">>]
    /\ ReadParts(wire[1].body.data) =
          <<[name |-> "config", filename |-> "config", content |-> <<"y", "x">>],
            [name |-> "model", filename |-> "model", content |-> <<"x", "y">>]>>

(***************************************************************************)
(* Claims about the Delete endpoint.                                       *)
(***************************************************************************)
\* C9: for a request with an appName, Delete writes exactly one response:
\* the error that the app is not deployed when DeleteApp reported
\* wasDeployed = false, the deletion message when it reported true.
C9_OneResponsePerDelete ==
    \A i \in 1..Len(operator.handled) :
        LET h == operator.handled[i] IN
        h.query["appName"] \notin {Absent, ""} =>
            /\ Len(h.deleteApp) = 1
            /\ h.deleteApp[1].appName = h.query["appName"]
            /\ Len(h.responses) = 1
            /\ h.responses[1] =
                  IF h.deleteApp[1].wasDeployed
                  THEN [kind |-> "ok", message |-> <<"Deployment deleted">>]
                  ELSE [kind |-> "error",
                        message |-> <<"app is not deployed: ", h.query["appName"]>>]

C9_Witness ==
    /\ Len(operator.handled) = 2
    /\ operator.handled[1].query["appName"] = "foo"
    /\ operator.handled[1].responses[1].kind = "ok"
    /\ operator.handled[2].query["appName"] = "foo"
    /\ operator.handled[2].responses[1].kind = "error"

(***************************************************************************)
(* Claims about the life of a Log Stream Session.                          *)
(***************************************************************************)
\* C11: in a session that reached Streaming, done is never closed twice, and
\* once the reader goroutine has ended done has been closed exactly once.
C11_DoneClosedExactlyOnce ==
    /\ conn.done <= 1
    /\ conn.reader = "readFailed" => conn.done = 1

StreamPositions == {"select", "deferConn", "deferBody", "returned"}
SessionClosed == call.name = "StreamLogs" /\ (pc \in {"returned", "exited"} \/ exit.by # "none")

\* C12 (as stated): the session is past Connecting only after a successful
\* handshake, it dials once and never again, and it is Closed only once the
\* reader goroutine has exited and the close has been sent.
C12_ClosedOnlyAfterReaderExit ==
    call.name = "StreamLogs" =>
        /\ pc \in StreamPositions => (srv.kind = "accepted" /\ Len(wire) = 1)
        /\ Len(wire) <= 1
        /\ (SessionClosed /\ conn.dialed) =>
              (conn.reader # "running" /\ (conn.closed \/ exit.by = "os.Exit"))

C12_Positions ==
    call.name = "StreamLogs" =>
        /\ pc \in StreamPositions =>
              (srv.kind = "accepted" /\ Len(wire) = 1 /\ conn.dialed)
        /\ Len(wire) <= 1
        /\ pc = "returned" =>
              (conn.closeFrames = 1 /\ conn.closed /\ conn.body = "closed")
        /\ pc = "exited" => (exit.by = "errors.Exit" /\ conn.reader = "none")
        /\ exit.by = "os.Exit" => (conn.reader = "readFailed" /\ pc \in StreamPositions)
C12_Moves ==
    call.name = "StreamLogs" =>
        /\ pc' # pc =>
              /\ exit.by = "none"
              /\ <<pc, pc'>> \in {<<"start", "connecting">>, <<"connecting", "select">>,
                                 <<"connecting", "exited">>, <<"select", "deferConn">>,
                                 <<"deferConn", "deferBody">>, <<"deferBody", "returned">>}
        /\ exit.by # "none" => exit' = exit
        /\ wire # <<>> => wire' = wire

\* C12 (amended): the session moves only forward, Connecting, Streaming,
\* Draining, Closed: it is past Connecting only after a successful handshake
\* and dials once; StreamLogs returns only through the interrupt branch, with
\* the close frame written, the connection closed and the handshake body
\* closed, and without waiting for the reader goroutine; a failed handshake or
\* a failed read ends the process where it stands; nothing moves after the
\* process has ended and there is no second dial.
C12_SessionMovesForwardOnly ==
    []C12_Positions /\ [][C12_Moves]_vars

C12_Witness ==
    /\ call.name = "StreamLogs"
    /\ pc = "returned"
    /\ exit.by = "none"
    /\ conn.reader = "running"
    /\ conn.closeFrames = 1
    /\ nread = 1

\* the line for a frame: the completion line for a marker with an RFC3339
\* time, the frame itself otherwise
LineOf(frame) ==
    IF LooksLikeMarker(frame) /\ HasGoodStamp(frame)
    THEN <<"\nCompleted on ", "Monday, January 1, 2024 at 12:00am UTC">>
    ELSE frame
C13_PrintedIsPrefix ==
    /\ Len(stdout) <= Len(sent)
    /\ \A i \in 1..Len(stdout) : stdout[i] = LineOf(sent[i])
C13_PrintsNextFrameOnly ==
    stdout' # stdout =>
        /\ Len(stdout) < Len(sent)
        /\ stdout' = Append(stdout, LineOf(sent[Len(stdout) + 1]))
        /\ sent' = sent

\* C13: the lines printed are, line for frame, the lines of a prefix of the
\* frames the operator sent, and a step that prints appends the line of the
\* next frame not yet printed: no frame is printed twice, skipped or
\* reordered.
C13_PrintedInOrderSent ==
    []C13_PrintedIsPrefix /\ [][C13_PrintsNextFrameOnly]_vars

C13_Witness ==
    /\ sent = << <<"starting", " ", "job1">>,
                 <<"workload: ", "job1", ", completed: ", "2024-01-01T00:00:00Z">> >>
    /\ stdout = << <<"starting", " ", "job1">>,
                   <<"\nCompleted on ", "Monday, January 1, 2024 at 12:00am UTC">> >>

\* C14: when the dial returned a handshake response, its body has been
\* closed once the session is over, whether StreamLogs returned or the
\* process was ended.
C14_HandshakeBodyReleased ==
    (SessionClosed /\ conn.body # "none") => conn.body = "closed"

C19_CloseFrameState ==
    /\ conn.closeFrames <= 1
    /\ conn.closeFrames = 1 => (sig.delivered >= 1 /\ pc \in StreamPositions \ {"select"})
    /\ conn.closed => pc \in {"deferBody", "returned"}
C19_CloseFrameStep ==
    /\ conn'.closeFrames # conn.closeFrames =>
          /\ pc = "select" /\ pc' = "deferConn"
          /\ sig.buffered > 0
          /\ sig'.buffered = sig.buffered - 1
          /\ conn.closeFrames = 0 /\ conn'.closeFrames = 1
          /\ ~conn.closed /\ ~conn'.closed
    /\ (pc = "select" /\ pc' = "deferConn" /\ sig' = sig) =>
          conn'.closeFrames = conn.closeFrames
    /\ (conn'.closed /\ ~conn.closed) => (pc = "deferConn" /\ conn' = [conn EXCEPT !.closed = TRUE])

\* C19: the client writes at most one close frame; the step that writes it
\* is the interrupt branch of closeConnection, which takes an interrupt from
\* the channel (the done branch writes nothing); and it is written while the
\* connection is not yet closed: connection.Close runs after closeConnection
\* has returned, and no frame is written after it.
C19_OneCloseFrameBeforeRelease ==
    []C19_CloseFrameState /\ [][C19_CloseFrameStep]_vars

C19_Witness ==
    /\ conn.closeFrames = 1
    /\ conn.closed
    /\ pc = "deferBody"
    /\ sig.delivered = 1

SessionEnded == pc = "returned" \/ exit.by # "none"

C20_EarlyInterruptKept ==
    (pc = "connecting" /\ sig.delivered > 0 /\ exit.by = "none") => sig.buffered = 1
C20_DialKeepsInterrupt ==
    (pc = "connecting" /\ pc' = "select") => sig' = sig

\* C20: under the scheduling of the Go runtime, a streaming session in which
\* an interrupt was delivered, or whose connection the operator closed or
\* the network dropped, eventually ends (StreamLogs returns or the process
\* exits); and an interrupt delivered while StreamLogs is connecting is kept
\* in the channel through the dial: after a successful handshake the
\* coordinator takes it and writes the close frame, unless the process has
\* exited before.
C20_TriggerEndsSession ==
    /\ (pc = "select" /\ sig.delivered > 0) ~> SessionEnded
    /\ (pc = "select" /\ conn.peer \in {"closed", "failed"}) ~> SessionEnded
    /\ []C20_EarlyInterruptKept
    /\ [][C20_DialKeepsInterrupt]_vars
    /\ (pc = "select" /\ sig.buffered > 0) ~>
            (conn.closeFrames = 1 \/ exit.by # "none")

C20_Witness ==
    /\ pc = "returned"
    /\ exit.by = "none"
    /\ sig.delivered = 1
    /\ sig.buffered = 0
    /\ conn.body = "closed"
    /\ sent = <<>>

(***************************************************************************)
(* Claims about name collisions, file handles and failures of an upload.   *)
(***************************************************************************)
UploadReturned == pc = "returned" /\ call.name = "HTTPUpload"
Collisions == DOMAIN call.FilePaths \cap DOMAIN call.Bytes
FileIsRead(path) == FileSystem[path].exists /\ FileSystem[path].reads
AllFilesRead == \A n \in DOMAIN call.FilePaths : FileIsRead(call.FilePaths[n])
PartsNamed(parts, n) == SelectSeq(parts, LAMBDA part : part.name = n)

\* C15 (as stated): when a name is in both FilePaths and Bytes, the body sent
\* has a single part under that name, holding the content of the last
\* writer, the Bytes entry.
C15_CollisionKeepsOnePart ==
    (UploadSent /\ Collisions # {}) =>
        \A n \in Collisions :
            PartsNamed(ReadParts(wire[1].body.data), n) =
                <<[name |-> n, filename |-> n, content |-> call.Bytes[n]]>>

\* C15 (amended): when a name is in both FilePaths and Bytes and the files
\* can be read, HTTPUpload reports no collision and sends a body with two
\* parts under that name: the part of the file first, the part of the byte
\* slice after it; nothing is overwritten.
C15_CollisionKeepsBothParts ==
    (UploadReturned /\ Collisions # {} /\ AllFilesRead /\ URLParses(cfg.CortexURL)) =>
        /\ Len(wire) = 1
        /\ result.err.nil = (srv.kind = "response")
        /\ \A n \in Collisions :
              PartsNamed(ReadParts(wire[1].body.data), n) =
                  <<[name |-> n, filename |-> n,
                     content |-> FileSystem[call.FilePaths[n]].data],
                    [name |-> n, filename |-> n, content |-> call.Bytes[n]]>>

C15_Witness ==
    /\ UploadSent
    /\ result.err.nil
    /\ call.FilePaths = [n \in {"config"} |-> "/work/a.yaml"]
    /\ call.Bytes = [n \in {"config"} |-> <<"x", "y">>]
    /\ Len(ReadParts(wire[1].body.data)) = 2

TimesIn(seq, x) == Cardinality({i \in 1..Len(seq) : seq[i] = x})

\* C16: when HTTPUpload has returned, on success and on every failure, every
\* file it opened has been closed, once for each time it was opened; and it
\* opened each file of FilePaths when all of them can be read.
C16_OpenedFilesAreClosed ==
    /\ pc = "start" => handles = NoHandles
    /\ (pc = "returned" /\ call.name \in {"HTTPUpload", "HTTPUploadZip"}) =>
          /\ Len(handles.closed) = Len(handles.opened)
          /\ \A path \in UploadPaths :
                TimesIn(handles.closed, path) = TimesIn(handles.opened, path)
          /\ \A i \in 1..Len(handles.opened) : FileSystem[handles.opened[i]].exists
          /\ (call.name = "HTTPUpload" /\ AllFilesRead) =>
                \A path \in UploadPaths :
                    TimesIn(handles.opened, path) =
                        Cardinality({n \in DOMAIN call.FilePaths : call.FilePaths[n] = path})

C16_Witness ==
    /\ UploadReturned
    /\ call.FilePaths = [n \in {"config", "model"} |->
                            IF n = "config" THEN "/work/a.yaml" ELSE "/work/gone"]
    /\ handles.opened = <<"/work/a.yaml">>
    /\ handles.closed = <<"/work/a.yaml">>
    /\ ~result.err.nil

\* C17: when a file of FilePaths cannot be opened or cannot be read into its
\* part, HTTPUpload returns nil bytes and an error (the file could not be
\* read, or the request could not be made) and nothing is sent to the
\* operator.
C17_FailedEncodingSendsNothing ==
    (UploadReturned /\ ~AllFilesRead) =>
        /\ wire = <<>>
        /\ result.bytes = NilBytes
        /\ ~result.err.nil
        /\ \/ result.err.msg = <<"unable to make request">>
           \/ \E n \in DOMAIN call.FilePaths :
                /\ ~FileSystem[call.FilePaths[n]].exists
                /\ result.err.msg = <<"unable to read file: ", call.FilePaths[n]>>

C17_Witness ==
    /\ UploadReturned
    /\ call.FilePaths = [n \in {"config", "model"} |->
                            IF n = "config" THEN "/work/a.yaml" ELSE "/work/dir"]
    /\ call.Bytes # EmptyValues
    /\ Len(handles.opened) = 2
    /\ wire = <<>>
    /\ result.err.msg = <<"unable to make request">>

(***************************************************************************)
(* Claims about the calls of workloads.DeleteApp.                          *)
(***************************************************************************)
AppNameMissing(h) == h.query["appName"] \in {Absent, ""}
C18_CallsOfDeleteApp ==
    \A i \in 1..Len(operator.handled) :
        LET h == operator.handled[i] IN
        /\ Len(h.deleteApp) <= 1
        /\ AppNameMissing(h) =>
              /\ h.deleteApp = <<>>
              /\ h.responses = <<[kind |-> "error",
                                  message |-> <<"query params required: ", "appName">>]>>
        /\ h.deleteApp # <<>> =>
              (~AppNameMissing(h) /\ h.deleteApp[1].appName = h.query["appName"])
C18_NoCallNoDeletion ==
    operator'.handled # operator.handled =>
        /\ Len(operator'.handled) = Len(operator.handled) + 1
        /\ operator'.handled[Len(operator'.handled)].deleteApp = <<>> =>
              (operator'.deployed = operator.deployed /\ operator'.cached = operator.cached)

\* C18: Delete calls workloads.DeleteApp at most once for a request, and only
\* with the appName of the request; for a request without appName it writes
\* the error that the parameter is required and returns without calling
\* DeleteApp: the deployed apps and their caches are as they were.
C18_DeleteAppOnlyWithAppName ==
    []C18_CallsOfDeleteApp /\ [][C18_NoCallNoDeletion]_vars

C18_Witness ==
    /\ Len(operator.handled) = 2
    /\ operator.handled[1].query["appName"] = Absent
    /\ operator.handled[1].deleteApp = <<>>
    /\ operator.handled[2].query["appName"] = "foo"
    /\ Len(operator.handled[2].deleteApp) = 1
    /\ operator.handled[2].deleteApp[1].wasDeployed

====
